---- MODULE Spec2Model ----
(***************************************************************************)
(* State-machine model of beryl_sql.c, the SQLite binding of the Beryl     *)
(* runtime: the database handle object (open, close, last-reference        *)
(* release, get-last-insert-rowid) and the invocation of a handle as a     *)
(* callable (beryl_sqldb_object_call), which runs a script of statements   *)
(* through prepare / bind / step / finalize.                               *)
(*                                                                         *)
(* Host values are tagged tuples: <<"null">>, <<"num", hi, lo, half>> (the *)
(* double hi * 2^26 + lo + half / 2, with 0 <= lo < 2^26 and half 0 or 1), *)
(* <<"str", bytes>>, <<"bool">> (any other variant), <<"err", message>>,   *)
(* <<"array", rows>>, <<"table", entries>>, <<"object">>.  A C int or a    *)
(* 64-bit engine integer is the pair <<hi, lo>>, hi * 2^26 + lo.           *)
(* C arrays are 0-based: the C element a[i] is the TLA+ element a[i + 1].  *)
(* The SQL text is a sequence of statements, one element per statement;    *)
(* the cursor expr counts the statements the engine has consumed.          *)
(***************************************************************************)
EXTENDS Integers, Sequences, FiniteSets, TLC

VARIABLES
    obj,          \* the Database Handle object: "none", "live", "freed"
    db,           \* obj->db: "null" or "conn"
    conn,         \* the engine's connection: "none", "open", "closed"
    connReleases, \* how many times the engine released the connection
    nullUse,      \* TRUE once a null connection reached sqlite3_last_insert_rowid
    crashed,      \* TRUE once undefined behaviour ended the process
    lastOp,       \* the operation that ran last
    pc,           \* position inside beryl_sqldb_object_call, "idle" outside
    args,         \* the arguments of the invocation (args[1] is C's args[0])
    expr,         \* the cursor into the SQL text
    rows,         \* the Result Collection being accumulated
    stmt,         \* the current statement handle (0 is the NULL handle)
    sno,          \* how many statements this invocation has prepared
    column_names, \* the column descriptors of the current statement
    rowNo,        \* how many rows the current statement has stepped
    trace,        \* engine and allocator calls of the last operation, in order
    blame,        \* values handed to beryl_blame_arg by the last operation
    result        \* the value the last operation returned

vars == <<obj, db, conn, connReleases, nullUse, crashed, lastOp, pc, args, expr,
          rows, stmt, sno, column_names, rowNo, trace, blame, result>>

(***************************************************************************)
(* Bounds of the model.                                                    *)
(***************************************************************************)
MaxStmts == 2   \* statements in one script
MaxRows == 3    \* rows the statements of one invocation yield
MaxParamStmts == 1   \* statements in a script invoked with one of MoreParamLists

(***************************************************************************)
(* Program constants.                                                      *)
(***************************************************************************)
\* sqlite3.h: the limit CATEGORY id handed to sqlite3_limit(); the code
\* compares the parameter count against it.
SQLITE_LIMIT_VARIABLE_NUMBER == 9
\* sqlite3's default SQLITE_MAX_VARIABLE_NUMBER, the engine's maximum
\* number of bindable parameters.
SQLITE_MAX_VARIABLE_NUMBER == 32766

(***************************************************************************)
(* Host values.                                                            *)
(***************************************************************************)
BERYL_NULL == <<"null">>
BERYL_ERR(msg) == <<"err", msg>>
StrVal(bytes) == <<"str", bytes>>
\* numbers are kept in two limbs, so that values beyond 32 bits can be told
\* apart
Limb == 2^26
\* the Number of the double n / 2
BERYL_NUMBER(n) == <<"num", (n \div 2) \div Limb, (n \div 2) % Limb, n % 2>>
\* the Number of the double hi * 2^26 + lo + half / 2
WideNumber(hi, lo, half) == <<"num", hi, lo, half>>
BERYL_TYPEOF(v) == v[1]
beryl_is_integer(v) == v[4] = 0

\* limits.h: INT_MIN = -2^31 and INT_MAX = 2^31 - 1, as limb pairs
IntLimbs == 2^5
INT_MIN == <<-IntLimbs, 0>>
INT_MAX == <<IntLimbs - 1, Limb - 1>>
InIntRange(v) == -IntLimbs <= v[2] /\ v[2] < IntLimbs

\* the implicit conversion of the double beryl_as_num(v) to the int
\* parameter of sqlite3_bind_int (line 60), for an integer-valued v.  A value
\* outside the range of int makes the conversion undefined; the builds in
\* use wrap it modulo 2^32, answer INT_MIN, or saturate.
\* a String of hi * 2^26 filler bytes followed by bytes
LongStr(bytes, hi) == <<"str", bytes, hi>>
\* BERYL_LENOF of a String, in limbs
BERYL_LENOF(v) == IF Len(v) = 3 THEN <<v[3], Len(v[2])>> ELSE <<0, Len(v[2])>>
\* beryl_get_raw_str: the bytes of a String, the filler of a long one named
\* by its size
beryl_get_raw_str(v) ==
    IF Len(v) = 3 /\ v[3] # 0 THEN <<"filler", ToString(v[3])>> \o v[2] ELSE v[2]
\* the number below 2^31 that the limbs l stand for
LimbsToInt(l) == l[1] * Limb + l[2]
\* the engine's SQLITE_MAX_LENGTH, 10^9 bytes, in limbs
SQLITE_MAX_LENGTH == <<14, 60475904>>
\* a > b for numbers in limbs
LimbsGreater(a, b) == a[1] > b[1] \/ (a[1] = b[1] /\ a[2] > b[2])

IntConversions == {"wrap", "indefinite", "saturate"}
double_to_int(v, ub) ==
    IF InIntRange(v) THEN <<v[2], v[3]>>
    ELSE CASE ub = "wrap" -> <<((v[2] + IntLimbs) % (2 * IntLimbs)) - IntLimbs, v[3]>>
           [] ub = "indefinite" -> INT_MIN
           [] OTHER -> IF v[2] < 0 THEN INT_MIN ELSE INT_MAX

RECURSIVE Repeat(_, _)
Repeat(v, n) == IF n = 0 THEN <<>> ELSE <<v>> \o Repeat(v, n - 1)

(***************************************************************************)
(* The engine, as far as the binding sees it.  A statement of the script   *)
(* is one of: "sel2" (SELECT of columns a, b), "dup" (SELECT of two        *)
(* columns both named a), "ins" (a statement without result columns),      *)
(* "bad" (text the compiler rejects), "ws" (white space and comments that  *)
(* no statement follows: sqlite3_prepare_v2 yields the NULL handle), "nul" *)
(* (a NUL byte, at which the engine stops reading: sqlite3_prepare_v2      *)
(* yields the NULL handle and consumes nothing).                           *)
(***************************************************************************)
Kinds == {"sel2", "dup", "ins", "bad", "ws", "nul"}

SeqsUpTo(S, n) == UNION {[1..k -> S] : k \in 0..n}

\* White space and comments in front of a statement are read by the prepare
\* that compiles the statement, and are part of that statement's element: an
\* element "ws" is a run of white space and comments that no statement
\* follows.  No invocation reads past an element of kind "bad", "ws" or
\* "nul" (its prepare fails, or yields the NULL handle, on which the step
\* fails), so a script is enumerated up to the first such element.
IsScript(s) == \A i \in 1..(Len(s) - 1) : s[i] \in {"sel2", "dup", "ins"}

ScriptsUpTo(n) == {s \in SeqsUpTo(Kinds, n) : IsScript(s)}

Scripts == ScriptsUpTo(MaxStmts)

\* the primary result codes with which a call of the engine reports a failure
EngineFailures ==
    { "SQLITE_ERROR", "SQLITE_INTERNAL", "SQLITE_PERM", "SQLITE_ABORT", "SQLITE_BUSY",
      "SQLITE_LOCKED", "SQLITE_NOMEM", "SQLITE_READONLY", "SQLITE_INTERRUPT",
      "SQLITE_IOERR", "SQLITE_CORRUPT", "SQLITE_NOTFOUND", "SQLITE_FULL",
      "SQLITE_CANTOPEN", "SQLITE_PROTOCOL", "SQLITE_EMPTY", "SQLITE_SCHEMA",
      "SQLITE_TOOBIG", "SQLITE_CONSTRAINT", "SQLITE_MISMATCH", "SQLITE_MISUSE",
      "SQLITE_NOLFS", "SQLITE_AUTH", "SQLITE_FORMAT", "SQLITE_RANGE", "SQLITE_NOTADB" }

\* sqlite3_column_count / sqlite3_column_name of a statement
ColumnNamesOf(kind) ==
    CASE kind = "sel2" -> <<"a", "b">>
      [] kind = "dup"  -> <<"a", "a">>
      [] OTHER         -> <<>>

\* the statement the handle h of this invocation was prepared from
KindOf(h) == IF h = 0 THEN "ws" ELSE args[1][2][h]

sqlite3_column_count(h) == IF h = 0 THEN 0 ELSE Len(ColumnNamesOf(KindOf(h)))

\* sqlite3_column_type of column i (0-based) of row r (1-based) of handle h
CellTypes == <<"SQLITE_FLOAT", "SQLITE_BLOB", "SQLITE_INTEGER", "SQLITE_TEXT", "SQLITE_NULL">>
sqlite3_column_type(h, r, i) == CellTypes[((h + r + i) % Len(CellTypes)) + 1]

\* the engine's value in that cell, as an integer payload
CellId(h, r, i) == 100 * h + 10 * r + i

(***************************************************************************)
(* Arguments of an invocation.                                             *)
(***************************************************************************)
\* the parameter lists every script is invoked with
ParamLists ==
    { <<>>,
      <<StrVal(<<"x">>), LongStr(<<"x">>, 1)>> }

\* the parameter lists that only the scripts of at most MaxParamStmts
\* statements are invoked with: the other variants, the Strings that are
\* too long, and as many parameters as the up-front check lets pass and
\* one more
MoreParamLists ==
    { <<(<<"bool">>), BERYL_NUMBER(5), BERYL_NUMBER(14), BERYL_NULL>>,
      <<LongStr(<<>>, IntLimbs)>>,
      <<BERYL_NULL, LongStr(<<>>, IntLimbs)>>,
      <<LongStr(<<>>, 15)>>,
      Repeat(BERYL_NULL, SQLITE_LIMIT_VARIABLE_NUMBER),
      Repeat(BERYL_NULL, SQLITE_LIMIT_VARIABLE_NUMBER + 1) }

ArgLists ==
    { <<StrVal(s)>> \o p : s \in Scripts, p \in ParamLists }
      \cup { <<StrVal(s)>> \o p : s \in ScriptsUpTo(MaxParamStmts), p \in MoreParamLists }
      \cup { <<BERYL_NUMBER(2)>> \o p : p \in ParamLists \cup MoreParamLists }

n_args == Len(args)
expr_end == Len(args[1][2])

(***************************************************************************)
(* The diagnostics channel.                                                *)
(***************************************************************************)
\* blame_sql_error: blames the engine's message for err, or a constant
\* string when the message string cannot be allocated
blame_sql_error(b, err, strOk) ==
    IF strOk THEN Append(b, StrVal(<<"errstr", err>>))
    ELSE Append(b, StrVal(<<"Unable to show error message (out of memory, unable to allocate string)">>))

(***************************************************************************)
(* Value Bridge: parameter encoding.                                       *)
(***************************************************************************)
\* bind_i_val_as_sql_param: the engine bind call made for the value val
\* (ub: the outcome of the conversion to int when it is undefined), or
\* <<"SQLITE_TOOBIG">> when it returns that code without calling the engine
bind_i_val_as_sql_param(val, ub) ==
    CASE BERYL_TYPEOF(val) = "str"  ->
            IF LimbsGreater(BERYL_LENOF(val), INT_MAX) THEN <<"SQLITE_TOOBIG">>
            ELSE <<"sqlite3_bind_text", beryl_get_raw_str(val), LimbsToInt(BERYL_LENOF(val))>>
      [] BERYL_TYPEOF(val) = "null" -> <<"sqlite3_bind_null">>
      [] BERYL_TYPEOF(val) = "num"  ->
            IF beryl_is_integer(val) THEN <<"sqlite3_bind_int", double_to_int(val, ub)>>
            ELSE <<"sqlite3_bind_double", <<val[2], val[3], val[4]>> >>
      [] OTHER -> <<"sqlite3_bind_text", <<"Unkown">>, -1>>

(***************************************************************************)
(* Value Bridge: row decoding.                                             *)
(***************************************************************************)
\* cstr_to_beryl_str: NULL for a NULL C string or a failed allocation
cstr_to_beryl_str(cstr, allocOk) ==
    IF cstr = "NULL" \/ ~allocOk THEN BERYL_NULL ELSE StrVal(<<cstr>>)

\* line 120: beryl_table_insert of the host runtime, whose result the code
\* discards.  A key that is not in the table is added after the entries it
\* holds.  For a key that is in the table the call replaces the value when
\* replace is set; otherwise the runtime either keeps the second entry
\* (keepDup) or refuses the insert and leaves the table as it is.
beryl_table_insert(table, key, val, replace, keepDup) ==
    LET held == {k \in DOMAIN table : table[k][1] = key}
    IN IF held = {} THEN Append(table, <<key, val>>)
       ELSE IF replace THEN [k \in DOMAIN table |-> IF k \in held THEN <<key, val>> ELSE table[k]]
       ELSE IF keepDup THEN Append(table, <<key, val>>)
       ELSE table

\* the loop of create_table_from_row, from column i on
RECURSIVE RowLoop(_, _, _, _, _, _, _, _)
RowLoop(h, r, n_columns, names, fail, keepDup, i, table) ==
    IF ~(i < n_columns) THEN <<"table", table>>
    ELSE LET t == sqlite3_column_type(h, r, i)
             id == CellId(h, r, i)
         IN CASE t = "SQLITE_NULL" ->
                    RowLoop(h, r, n_columns, names, fail, keepDup, i + 1,
                            beryl_table_insert(table, names[i + 1], BERYL_NULL, FALSE, keepDup))
              [] t \in {"SQLITE_INTEGER", "SQLITE_FLOAT"} ->
                    RowLoop(h, r, n_columns, names, fail, keepDup, i + 1,
                            beryl_table_insert(table, names[i + 1], BERYL_NUMBER(2 * id),
                                               FALSE, keepDup))
              [] OTHER ->
                    IF fail = <<"big", i>> THEN BERYL_ERR("Text/blob too large")
                    ELSE IF fail = <<"str", i>> THEN BERYL_ERR("Out of memory")
                    ELSE RowLoop(h, r, n_columns, names, fail, keepDup, i + 1,
                                 beryl_table_insert(table, names[i + 1],
                                                    StrVal(<<ToString(id)>>), FALSE, keepDup))

\* create_table_from_row with its loop starting at column 1
create_table_from_row_from1(h, r, n_columns, names, fail, keepDup) ==
    IF fail = <<"table", 0>> THEN BERYL_ERR("Out of memory")
    ELSE RowLoop(h, r, n_columns, names, fail, keepDup, 1, <<>>)

\* create_table_from_row; fail names the step that fails, if any:
\* <<"table", 0>> the table allocation, <<"str", i>> the string of column i,
\* <<"big", i>> the length check of column i, <<"none", 0>> nothing;
\* keepDup is the host's answer to the insert of a key the table holds
create_table_from_row(h, r, n_columns, names, fail, keepDup) ==
    IF fail = <<"table", 0>> THEN BERYL_ERR("Out of memory")
    ELSE RowLoop(h, r, n_columns, names, fail, keepDup, 0, <<>>)

RowFails(n_columns) ==
    {<<"none", 0>>, <<"table", 0>>}
      \cup {<<"str", i>> : i \in 0..(n_columns - 1)}
      \cup {<<"big", i>> : i \in 0..(n_columns - 1)}

(***************************************************************************)
(* Calls recorded in the trace.                                            *)
(***************************************************************************)
Finalize(h) == <<"sqlite3_finalize", h>>
ReleaseRows == <<"beryl_release_rows">>
TFree(s) == <<"beryl_tfree", s>>
\* beryl_release of the value v held in slot i of the descriptor buffer of
\* statement s; releasing a Null value releases nothing
ReleaseSlot(s, i, v) == <<"beryl_release", s, i, BERYL_TYPEOF(v)>>

\* for(int i = 0; i < n_columns; i++) beryl_release(column_names[i]);
ReleaseNames(s, names) == [k \in 1..Len(names) |-> ReleaseSlot(s, k - 1, names[k])]

(***************************************************************************)
(* The cleanup of each exit path of the Statement Executor.                *)
(***************************************************************************)
\* lines 151-154: a failed prepare
CompileFailCleanup == <<>>

\* lines 159-160: a failed bind
BindFailCleanup(h) == <<Finalize(h), ReleaseRows>>

\* lines 170-171: the descriptor buffer cannot be allocated
TallocFailCleanup(h) == <<Finalize(h), ReleaseRows>>

\* lines 179-183: descriptor i cannot be created; names holds the slots 0..i
ColumnFailCleanup(h, s, i, names) ==
    [j \in 1..i |-> ReleaseSlot(s, i, names[i + 1])]
      \o <<TFree(s), Finalize(h), ReleaseRows>>

\* lines 190-194: the step reports busy
BusyCleanup(h, s, names) ==
    <<Finalize(h), ReleaseRows>> \o ReleaseNames(s, names) \o <<TFree(s)>>

\* lines 197-201: the step reports another error
StepErrorCleanup(h, s, names) ==
    <<Finalize(h), ReleaseRows>> \o ReleaseNames(s, names) \o <<TFree(s)>>

\* lines 216-219: the row cannot be built or pushed
RowErrorCleanup(h, s, names) ==
    <<Finalize(h), ReleaseRows>> \o ReleaseNames(s, names)

\* StatementDoneCleanup without its sqlite3_finalize
StatementDoneCleanup_NoFinalize(h, s, names) == ReleaseNames(s, names)

\* lines 224-227: the statement is done
StatementDoneCleanup(h, s, names) ==
    ReleaseNames(s, names) \o <<Finalize(h)>>

(***************************************************************************)
(* beryl_sqldb_object_call: invoking the handle as a callable.             *)
(***************************************************************************)
Return(val, tr, bl) ==
    /\ pc' = "idle"
    /\ result' = val
    /\ trace' = tr
    /\ blame' = bl

lifeVars == <<obj, db, conn, connReleases, nullUse, crashed>>

\* the host runs one operation at a time: the next one starts once the
\* caller has taken the value the last one returned
Ready == pc = "idle" /\ lastOp \in {"init", "consume"} /\ ~crashed

\* CallChecks with the type check of the first argument made first
CallChecks_TypeFirst(d, a) ==
    IF BERYL_TYPEOF(a[1]) # "str"
    THEN BERYL_ERR("Expected SQL query (a string) as first argument")
    ELSE IF d = "null" THEN BERYL_ERR("Database has been closed")
    ELSE IF Len(a) - 1 > SQLITE_LIMIT_VARIABLE_NUMBER
         THEN BERYL_ERR("Too many parameters")
    ELSE <<"ok">>

\* CallChecks with the parameter count compared by >= instead of >
CallChecks_OffByOne(d, a) ==
    IF d = "null" THEN BERYL_ERR("Database has been closed")
    ELSE IF BERYL_TYPEOF(a[1]) # "str"
         THEN BERYL_ERR("Expected SQL query (a string) as first argument")
    ELSE IF Len(a) - 1 >= SQLITE_LIMIT_VARIABLE_NUMBER
         THEN BERYL_ERR("Too many parameters")
    ELSE <<"ok">>

\* the checks of lines 128-138, in the order of the code: the Error they
\* return, or <<"ok">>
CallChecks(d, a) ==
    IF d = "null" THEN BERYL_ERR("Database has been closed")
    ELSE IF BERYL_TYPEOF(a[1]) # "str"
         THEN BERYL_ERR("Expected SQL query (a string) as first argument")
    ELSE IF Len(a) - 1 > SQLITE_LIMIT_VARIABLE_NUMBER
         THEN BERYL_ERR("Too many parameters")
    ELSE <<"ok">>

\* lines 126-146: the entry of the call up to the allocation of rows
Call(a) ==
    /\ Ready /\ obj = "live"
    /\ lastOp' = "call"
    /\ args' = a
    /\ expr' = 0 /\ rows' = <<>> /\ stmt' = 0 /\ sno' = 0
    /\ column_names' = <<>> /\ rowNo' = 0
    /\ UNCHANGED lifeVars
    /\ LET chk == CallChecks(db, a)
       IN IF chk # <<"ok">>
          THEN Return(chk, <<>>,
                      IF chk = BERYL_ERR("Expected SQL query (a string) as first argument")
                      THEN <<a[1]>> ELSE <<>>)
          ELSE \E arrOk \in BOOLEAN :
                 IF arrOk
                 THEN /\ pc' = "loop"
                      /\ result' = <<"none">>
                      /\ trace' = << <<"beryl_new_array", "ok">> >>
                      /\ blame' = <<>>
                 ELSE Return(BERYL_ERR("Out of memory"),
                             << <<"beryl_new_array", "NULL">> >>, <<>>)

\* the results sqlite3_prepare_v2 can report for a remainder of the text that
\* starts with an element of this kind.  Whatever the text, the engine can
\* fail with any of its codes (the database is locked, corrupt, not a
\* database, memory runs out, ...); text the compiler rejects never succeeds.
PrepareResults(kind) ==
    IF kind = "bad" THEN EngineFailures ELSE {"SQLITE_OK"} \cup EngineFailures

\* a prepare that never consumes anything of the text
pzTail_Stuck(e, kind) == e

\* line 150: the cursor after a successful prepare, which consumed one
\* element of the text (a statement with the white space in front of it, or
\* a run of white space), or nothing when the remainder starts with a NUL byte
pzTail(e, kind) == IF kind = "nul" THEN e ELSE e + 1

\* lines 148-154 and 229: the loop test, then sqlite3_prepare_v2 on the
\* unconsumed remainder of the text
Prepare ==
    /\ pc = "loop"
    /\ UNCHANGED <<lifeVars, lastOp, args, rows, column_names>>
    /\ IF expr = expr_end
       THEN /\ Return(<<"array", rows>>, trace, blame)
            /\ UNCHANGED <<expr, stmt, sno, rowNo>>
       ELSE LET kind == args[1][2][expr + 1]
            IN \E err \in PrepareResults(kind) :
               IF err # "SQLITE_OK"
               THEN /\ \E strOk \in BOOLEAN :
                         Return(BERYL_ERR("SQL compiler error"),
                                Append(trace, <<"sqlite3_prepare_v2", 0, err>>)
                                  \o CompileFailCleanup,
                                blame_sql_error(blame, err, strOk))
                    /\ stmt' = 0
                    /\ sno' = sno + 1
                    /\ UNCHANGED <<expr, rowNo>>
               ELSE LET h == IF kind \in {"ws", "nul"} THEN 0 ELSE expr + 1
                    IN /\ stmt' = h
                       /\ sno' = sno + 1
                       /\ expr' = pzTail(expr, kind)
                       /\ rowNo' = 0
                       /\ pc' = "bind"
                       /\ trace' = Append(trace, <<"sqlite3_prepare_v2", h, "SQLITE_OK">>)
                       /\ UNCHANGED <<blame, result>>

\* the bind loop reading the argument array from its first element, the SQL
\* text included
BindCalls_FromArg0(h, a, upto, rc, ub) ==
    [i \in 1..upto |->
        <<"bind", h, i, bind_i_val_as_sql_param(a[i], ub),
          IF i = upto THEN rc ELSE "SQLITE_OK">>]

\* the bind calls of lines 156-157 for the parameters 1..upto, the last of
\* them returning rc
BindCalls(h, a, upto, rc, ub) ==
    [i \in 1..upto |->
        <<"bind", h, i, bind_i_val_as_sql_param(a[i + 1], ub),
          IF i = upto THEN rc ELSE "SQLITE_OK">>]

\* the parameters whose bind returns SQLITE_TOOBIG before any engine call
TooLong(a) ==
    {i \in 1..(Len(a) - 1) : bind_i_val_as_sql_param(a[i + 1], "wrap") = <<"SQLITE_TOOBIG">>}

\* the number of leading parameters that reach the engine
EngineBinds(a) ==
    IF TooLong(a) = {} THEN Len(a) - 1
    ELSE (CHOOSE i \in TooLong(a) : \A i2 \in TooLong(a) : i <= i2) - 1

\* the parameters that reach the engine and that sqlite3_bind_text refuses
\* with SQLITE_TOOBIG, a String longer than SQLITE_MAX_LENGTH
EngineTooBig(a) ==
    {i \in 1..EngineBinds(a) :
        /\ BERYL_TYPEOF(a[i + 1]) = "str"
        /\ LimbsGreater(BERYL_LENOF(a[i + 1]), SQLITE_MAX_LENGTH)}

\* the results with which the engine can fail the bind of parameter k on the
\* handle h: every bind on the NULL handle is a misuse, an index beyond the
\* statement's placeholders is out of range, a String may be too big, and
\* a text bound to a database of another encoding is converted in memory
\* the engine may fail to allocate
BindFailures(h, a, k) ==
    IF h = 0 THEN {"SQLITE_MISUSE"}
    ELSE {"SQLITE_RANGE"}
           \cup (IF k \in EngineTooBig(a) THEN {"SQLITE_TOOBIG"} ELSE {})
           \cup (IF bind_i_val_as_sql_param(a[k + 1], "wrap")[1] = "sqlite3_bind_text"
                 THEN {"SQLITE_NOMEM"} ELSE {})

\* lines 156-164: the parameters are bound in order; the engine fails the
\* bind of parameter k (k = 0: none), every bind on the NULL handle and the
\* bind of a String it finds too big; a String longer than INT_MAX ends the
\* loop without an engine call
BindParams ==
    /\ pc = "bind"
    /\ UNCHANGED <<lifeVars, lastOp, args, expr, rows, stmt, sno, column_names, rowNo>>
    /\ LET last == EngineBinds(args)
       IN \E k \in 0..last, ub \in IntConversions :
            /\ stmt = 0 => k = (IF last > 0 THEN 1 ELSE 0)
            /\ \A e \in EngineTooBig(args) : k # 0 /\ k <= e
            /\ IF k = 0 /\ last = n_args - 1
               THEN /\ pc' = "columns"
                    /\ trace' = trace \o BindCalls(stmt, args, n_args - 1, "SQLITE_OK", ub)
                    /\ UNCHANGED <<blame, result>>
               ELSE IF k = 0
               THEN \E strOk \in BOOLEAN :
                      Return(BERYL_ERR("SQL parameter error"),
                             trace \o BindCalls(stmt, args, last, "SQLITE_OK", ub)
                               \o BindFailCleanup(stmt),
                             blame_sql_error(blame, "SQLITE_TOOBIG", strOk))
               ELSE \E err \in BindFailures(stmt, args, k), strOk \in BOOLEAN :
                      Return(BERYL_ERR("SQL parameter error"),
                             trace \o BindCalls(stmt, args, k, err, ub)
                               \o BindFailCleanup(stmt),
                             blame_sql_error(blame, err, strOk))

\* lines 174-177: the descriptors of the columns 0..upto-1, the allocation
\* of the last one failing when lastOk is FALSE
Descriptors(h, upto, lastOk) ==
    [k \in 1..upto |->
        cstr_to_beryl_str(ColumnNamesOf(KindOf(h))[k], k < upto \/ lastOk)]

DescriptorCalls(h, s, names) ==
    [k \in 1..Len(names) |-> <<"beryl_new_string", s, k - 1, BERYL_TYPEOF(names[k])>>]

\* lines 166-186: the descriptor buffer and the column descriptors; the
\* creation of descriptor f - 1 fails (f = 0: none does)
Columns ==
    /\ pc = "columns"
    /\ UNCHANGED <<lifeVars, lastOp, args, expr, rows, stmt, sno, rowNo>>
    /\ LET n_columns == sqlite3_column_count(stmt)
           head == trace \o << <<"sqlite3_column_count", stmt>> >>
       IN \E tallocOk \in BOOLEAN, f \in 0..n_columns :
            IF ~tallocOk
            THEN /\ f = 0
                 /\ Return(BERYL_ERR("Out of memory"),
                           head \o << <<"beryl_talloc", sno, "NULL">> >>
                             \o TallocFailCleanup(stmt),
                           blame)
                 /\ UNCHANGED column_names
            ELSE IF f = 0
            THEN /\ column_names' = Descriptors(stmt, n_columns, TRUE)
                 /\ pc' = "step"
                 /\ trace' = head \o << <<"beryl_talloc", sno, "ok">> >>
                               \o DescriptorCalls(stmt, sno, column_names')
                 /\ UNCHANGED <<blame, result>>
            ELSE /\ column_names' = Descriptors(stmt, f, FALSE)
                 /\ Return(BERYL_ERR("Out of memory"),
                           head \o << <<"beryl_talloc", sno, "ok">> >>
                             \o DescriptorCalls(stmt, sno, column_names')
                             \o ColumnFailCleanup(stmt, sno, f - 1, column_names'),
                           blame)

\* the results sqlite3_step can report for the current statement: on the
\* NULL handle a misuse; on a statement the end, any failure code of the
\* engine (busy, constraint, too big, mismatch, read-only, corrupt, out of
\* memory, ...) and, for a statement with result columns, a row
StepResults ==
    IF stmt = 0 THEN {"SQLITE_MISUSE"}
    ELSE {"SQLITE_DONE"} \cup EngineFailures
           \cup (IF Len(rows) < MaxRows /\ sqlite3_column_count(stmt) > 0
                 THEN {"SQLITE_ROW"} ELSE {})

\* a push at the front of the array
beryl_array_push_front(arr, v) == <<v>> \o arr

\* beryl_array_push
beryl_array_push(arr, v) == Append(arr, v)

\* lines 189-203: the Error returned for a step result that is neither a row
\* nor the end of the statement
step_failure(res) ==
    IF res = "SQLITE_BUSY" THEN BERYL_ERR("Database is busy (timeout)")
    ELSE BERYL_ERR("SQL error")

\* line 120: the answers the host can give to the insert of a key that the
\* table holds.  The host is one program: once a row of this invocation has
\* shown its answer, the later rows get the same one.
HostAnswers(rs) ==
    LET steps == SelectSeq(trace, LAMBDA e : e[1] = "sqlite3_step" /\ e[3] = "SQLITE_ROW")
        asked == {k \in DOMAIN rs :
                    LET names == ColumnNamesOf(KindOf(steps[k][2]))
                    IN \E a, b \in DOMAIN names : a < b /\ names[a] = names[b]}
    IN IF asked = {} THEN BOOLEAN
       ELSE {\A k \in asked : Len(rs[k][2]) = sqlite3_column_count(steps[k][2])}

\* lines 188-228: one sqlite3_step and what the loop body does with it
Step ==
    /\ pc = "step"
    /\ UNCHANGED <<lifeVars, lastOp, args, expr, stmt, sno, column_names>>
    /\ \E res \in StepResults :
         LET tr == Append(trace, <<"sqlite3_step", stmt, res, rowNo + 1>>)
         IN CASE res = "SQLITE_DONE" ->
                   /\ pc' = "loop"
                   /\ trace' = tr \o StatementDoneCleanup(stmt, sno, column_names)
                   /\ UNCHANGED <<rows, rowNo, blame, result>>
              [] res = "SQLITE_BUSY" ->
                   /\ Return(step_failure(res),
                             tr \o BusyCleanup(stmt, sno, column_names), blame)
                   /\ UNCHANGED <<rows, rowNo>>
              [] res = "SQLITE_ROW" ->
                   \E fail \in RowFails(Len(column_names)), pushOk \in BOOLEAN,
                      keepDup \in HostAnswers(rows) :
                     LET row == create_table_from_row(stmt, rowNo + 1,
                                    sqlite3_column_count(stmt), column_names, fail, keepDup)
                         err == IF BERYL_TYPEOF(row) = "err" THEN row
                                ELSE IF ~pushOk THEN BERYL_ERR("Out of memory")
                                ELSE BERYL_NULL
                     IN IF BERYL_TYPEOF(err) = "err"
                        THEN /\ Return(err, tr \o RowErrorCleanup(stmt, sno, column_names), blame)
                             /\ UNCHANGED <<rows, rowNo>>
                        ELSE /\ rows' = beryl_array_push(rows, row)
                             /\ rowNo' = rowNo + 1
                             /\ trace' = tr
                             /\ UNCHANGED <<pc, blame, result>>
              [] OTHER ->
                   /\ \E strOk \in BOOLEAN :
                        Return(step_failure(res),
                               tr \o StepErrorCleanup(stmt, sno, column_names),
                               blame_sql_error(blame, res, strOk))
                   /\ UNCHANGED <<rows, rowNo>>

(***************************************************************************)
(* The engine's connection.                                                *)
(***************************************************************************)
\* sqlite3_close / sqlite3_close_v2 on the pointer d: the connection state
\* afterwards.  A NULL pointer is a harmless no-op; a failing close (busy)
\* leaves the connection open.
EngineCloseConn(c, d, ok) == IF d = "conn" /\ ok THEN "closed" ELSE c

\* ... and how often the engine has released the connection.  Closing a
\* pointer whose connection is already released releases it a second time.
EngineCloseCount(n, d, ok) == IF d = "conn" /\ ok /\ n < 2 THEN n + 1 ELSE n

\* the result code of the close call
EngineCloseRc(d, ok) == IF d = "null" \/ ok THEN "SQLITE_OK" ELSE "SQLITE_BUSY"

invVars == <<pc, args, expr, rows, stmt, sno, column_names, rowNo>>

OtherValue == BERYL_NUMBER(2)

(***************************************************************************)
(* close_callback                                                          *)
(***************************************************************************)
\* close_callback without the assignment obj->db = NULL
close_callback_db_keep(d, err) == d

\* close_callback with the assignment obj->db = NULL made before the test
\* of the engine's result
close_callback_db_clear(d, err) == "null"

\* lines 250-254: obj->db after the sqlite3_close that returned err
close_callback_db(d, err) == IF err # "SQLITE_OK" THEN d ELSE "null"

\* lines 251-256: the value close returns
close_callback_result(err) ==
    IF err # "SQLITE_OK" THEN BERYL_ERR("Unable to close database") ELSE BERYL_NULL

Close(isHandle, ok) ==
    /\ Ready /\ obj = "live"
    /\ lastOp' = "close"
    /\ UNCHANGED <<invVars, obj, nullUse, crashed>>
    /\ IF ~isHandle
       THEN /\ ok
            /\ blame' = <<OtherValue>>
            /\ trace' = <<>>
            /\ result' = BERYL_ERR("Expected database object as argument for 'close'")
            /\ UNCHANGED <<db, conn, connReleases>>
       ELSE LET good == ok \/ conn # "open"
                err == EngineCloseRc(db, good)
            IN /\ ok \/ (db = "conn" /\ conn = "open")
               /\ trace' = << <<"sqlite3_close", db, err>> >>
               /\ conn' = EngineCloseConn(conn, db, good)
               /\ connReleases' = EngineCloseCount(connReleases, db, good)
               /\ db' = close_callback_db(db, err)
               /\ result' = close_callback_result(err)
               /\ blame' = <<>>

(***************************************************************************)
(* beryl_sqldb_object_free: the last reference to the handle is released   *)
(***************************************************************************)
\* line 34: the pointer handed to sqlite3_close_v2
beryl_sqldb_object_free_arg(d) == d

Free ==
    /\ Ready /\ obj = "live"
    /\ lastOp' = "free"
    /\ UNCHANGED <<invVars, db, nullUse, crashed>>
    /\ LET d == beryl_sqldb_object_free_arg(db)
       IN /\ trace' = << <<"sqlite3_close_v2", d, "SQLITE_OK">> >>
          /\ conn' = EngineCloseConn(conn, d, TRUE)
          /\ connReleases' = EngineCloseCount(connReleases, d, TRUE)
    /\ obj' = "freed"
    /\ result' = <<"none">>
    /\ blame' = <<>>

(***************************************************************************)
(* open_callback                                                           *)
(***************************************************************************)
PathValue == StrVal(<<"path">>)

\* the failure path of open without its beryl_blame_arg(args[0])
open_fail_blame_NoPath(path, err, strOk) == blame_sql_error(<<>>, err, strOk)

\* lines 277-278: the values blamed when the engine's open call fails, the
\* path first and the engine's message after it
open_fail_blame(path, err, strOk) == blame_sql_error(<<path>>, err, strOk)

\* the results of sqlite3_open: success or any failure code of the engine;
\* on SQLITE_NOMEM the engine hands back no connection at all
OpenResults == {"SQLITE_OK"} \cup EngineFailures

Open(path, cstrOk, err, strOk, objOk) ==
    /\ Ready /\ obj = "none"
    /\ lastOp' = "open"
    /\ UNCHANGED <<invVars, nullUse, crashed>>
    /\ IF BERYL_TYPEOF(path) # "str"
       THEN /\ cstrOk /\ err = "SQLITE_OK" /\ strOk /\ objOk
            /\ blame' = <<path>>
            /\ trace' = <<>>
            /\ result' = BERYL_ERR("Expected string path as first argument for 'sql.open'")
            /\ UNCHANGED <<obj, db, conn, connReleases>>
       ELSE IF ~cstrOk
       THEN /\ err = "SQLITE_OK" /\ strOk /\ objOk
            /\ blame' = <<>>
            /\ trace' = << <<"beryl_talloc", 0, "NULL">> >>
            /\ result' = BERYL_ERR("Out of memory")
            /\ UNCHANGED <<obj, db, conn, connReleases>>
       ELSE IF err # "SQLITE_OK"
       THEN LET d == IF err = "SQLITE_NOMEM" THEN "null" ELSE "conn"
            IN /\ objOk
               /\ trace' = << <<"beryl_talloc", 0, "ok">>,
                              <<"sqlite3_open", d, err>>,
                              TFree(0),
                              <<"sqlite3_close", d, "SQLITE_OK">> >>
               /\ conn' = IF d = "null" THEN "none" ELSE EngineCloseConn("open", d, TRUE)
               /\ connReleases' = EngineCloseCount(0, d, TRUE)
               /\ blame' = open_fail_blame(path, err, strOk)
               /\ result' = BERYL_ERR("Unable to open database")
               /\ UNCHANGED <<obj, db>>
       ELSE IF ~objOk
       THEN /\ strOk
            /\ trace' = << <<"beryl_talloc", 0, "ok">>,
                           <<"sqlite3_open", "conn", "SQLITE_OK">>,
                           TFree(0),
                           <<"sqlite3_busy_timeout", "conn", 1000>>,
                           <<"beryl_new_object", "NULL">>,
                           <<"sqlite3_close", "conn", "SQLITE_OK">> >>
            /\ conn' = EngineCloseConn("open", "conn", TRUE)
            /\ connReleases' = EngineCloseCount(0, "conn", TRUE)
            /\ blame' = <<>>
            /\ result' = BERYL_ERR("Out of memory")
            /\ UNCHANGED <<obj, db>>
       ELSE /\ strOk
            /\ trace' = << <<"beryl_talloc", 0, "ok">>,
                           <<"sqlite3_open", "conn", "SQLITE_OK">>,
                           TFree(0),
                           <<"sqlite3_busy_timeout", "conn", 1000>>,
                           <<"beryl_new_object", "ok">> >>
            /\ conn' = "open"
            /\ connReleases' = 0
            /\ obj' = "live"
            /\ db' = "conn"
            /\ blame' = <<>>
            /\ result' = <<"object">>

(***************************************************************************)
(* get_last_insert_rowid_callback                                          *)
(***************************************************************************)
\* the rowids the engine may report, relative to BERYL_NUM_MAX_INT
RowIds == {"zero", "small", "max", "max+1"}
ExceedsNumMaxInt(id) == id = "max+1"

\* lines 303-309 on a live connection
rowid_result(id) ==
    IF ExceedsNumMaxInt(id) THEN BERYL_ERR("Id out of range") ELSE <<"rowid", id>>

\* sqlite3_last_insert_rowid(NULL) is undefined: a build with API armor
\* answers 0, any other build dereferences the null pointer
GetLastInsertRowid(isHandle, id, armor) ==
    /\ Ready /\ obj = "live"
    /\ lastOp' = "rowid"
    /\ UNCHANGED <<invVars, obj, db, conn, connReleases>>
    /\ IF ~isHandle
       THEN /\ id = "zero" /\ armor
            /\ blame' = <<OtherValue>>
            /\ trace' = <<>>
            /\ result' = BERYL_ERR("Expected database object as argument for 'close'")
            /\ UNCHANGED <<nullUse, crashed>>
       ELSE /\ trace' = << <<"sqlite3_last_insert_rowid", db>> >>
            /\ blame' = <<>>
            /\ IF db = "null"
               THEN /\ id = "zero"
                    /\ nullUse' = TRUE
                    /\ crashed' = ~armor
                    /\ result' = IF armor THEN rowid_result("zero") ELSE <<"none">>
               ELSE /\ armor
                    /\ result' = rowid_result(id)
                    /\ UNCHANGED <<nullUse, crashed>>

(***************************************************************************)
(* The specification.                                                      *)
(***************************************************************************)
Init ==
    /\ obj = "none" /\ db = "null" /\ conn = "none" /\ connReleases = 0
    /\ nullUse = FALSE /\ crashed = FALSE
    /\ lastOp = "init"
    /\ pc = "idle"
    /\ args = <<StrVal(<<>>)>>
    /\ expr = 0 /\ rows = <<>> /\ stmt = 0 /\ sno = 0
    /\ column_names = <<>> /\ rowNo = 0
    /\ trace = <<>> /\ blame = <<>> /\ result = <<"none">>

\* the caller takes the returned value; the locals of the operation are gone
Consume ==
    /\ pc = "idle" /\ lastOp \notin {"init", "consume"} /\ ~crashed
    /\ lastOp' = "consume"
    /\ pc' = "idle"
    /\ args' = <<StrVal(<<>>)>>
    /\ expr' = 0 /\ rows' = <<>> /\ stmt' = 0 /\ sno' = 0
    /\ column_names' = <<>> /\ rowNo' = 0
    /\ trace' = <<>> /\ blame' = <<>> /\ result' = <<"none">>
    /\ UNCHANGED lifeVars

Next ==
    \/ \E path \in {PathValue, OtherValue}, err \in OpenResults, cstrOk, strOk, objOk \in BOOLEAN :
          Open(path, cstrOk, err, strOk, objOk)
    \/ \E a \in ArgLists : Call(a)
    \/ Prepare
    \/ BindParams
    \/ Columns
    \/ Step
    \/ \E isHandle, ok \in BOOLEAN : Close(isHandle, ok)
    \/ \E isHandle, armor \in BOOLEAN, id \in RowIds : GetLastInsertRowid(isHandle, id, armor)
    \/ Free
    \/ Consume

Spec == Init /\ [][Next]_vars

\* the handler of lines 126-230 runs to its return once it is entered: each
\* of its steps is taken when it is the next one
SpecFair ==
    Spec /\ WF_vars(Prepare) /\ WF_vars(BindParams) /\ WF_vars(Columns) /\ WF_vars(Step)

(***************************************************************************)
(* Reading the trace of an invocation.                                     *)
(***************************************************************************)
Returned == lastOp = "call" /\ pc = "idle"

Occurrences(e) == {i \in DOMAIN trace : trace[i] = e}

RowsAllocated == Occurrences(<<"beryl_new_array", "ok">>) # {}

\* the positions of the engine calls made on the statement handle h
UsesOf(h) ==
    {i \in DOMAIN trace :
        /\ trace[i][1] \in {"bind", "sqlite3_column_count", "sqlite3_step"}
        /\ trace[i][2] = h}

\* the steps that reported a row, in the order the engine was stepped
RowSteps == SelectSeq(trace, LAMBDA e : e[1] = "sqlite3_step" /\ e[3] = "SQLITE_ROW")

\* the host value the data model prescribes for an engine cell
DecodedCell(h, r, i) ==
    LET t == sqlite3_column_type(h, r, i)
    IN CASE t = "SQLITE_NULL" -> BERYL_NULL
         [] t \in {"SQLITE_INTEGER", "SQLITE_FLOAT"} -> BERYL_NUMBER(2 * CellId(h, r, i))
         [] OTHER -> StrVal(<<ToString(CellId(h, r, i))>>)

\* the Table the data model prescribes for row r of the statement h
ExpectedRow(h, r) ==
    LET names == ColumnNamesOf(KindOf(h))
    IN <<"table", [k \in 1..Len(names) |-> <<StrVal(<<names[k]>>), DecodedCell(h, r, k - 1)>>]>>

\* the entries of a table without those whose key an earlier entry carries
RECURSIVE FirstOfEachKey(_, _, _)
FirstOfEachKey(entries, i, acc) ==
    IF i > Len(entries) THEN acc
    ELSE FirstOfEachKey(entries, i + 1,
            IF \E k \in 1..(i - 1) : entries[k][1] = entries[i][1] THEN acc
            ELSE Append(acc, entries[i]))

\* the Tables row r of the statement h can be decoded to: the prescribed one
\* or, when the host refuses a key the table holds, the one without the later
\* entries of a repeated name
ExpectedRows(h, r) ==
    {ExpectedRow(h, r), <<"table", FirstOfEachKey(ExpectedRow(h, r)[2], 1, <<>>)>>}

DistinctNames(names) ==
    \A i, j \in DOMAIN names : i # j => names[i] # names[j]

(***************************************************************************)
(* C1.  On every failure path of a handle invocation that has allocated    *)
(* the Result Collection, the call returns an Error and the Result         *)
(* Collection has been released exactly once before the return.  The code  *)
(* breaks this on the compile-error path, which returns without releasing  *)
(* rows.                                                                   *)
(***************************************************************************)
C1_FailureReleasesRowsOnce ==
    (Returned /\ RowsAllocated /\ BERYL_TYPEOF(result) # "array")
        => /\ BERYL_TYPEOF(result) = "err"
           /\ Cardinality(Occurrences(ReleaseRows)) = 1

(***************************************************************************)
(* C2.  Every statement handle that sqlite3_prepare_v2 produced during an  *)
(* invocation is finalized at most once, after its prepare, is not used    *)
(* after its finalize, and has been finalized exactly once when the        *)
(* invocation has returned.                                                *)
(***************************************************************************)
C2_StatementsFinalizedOnce ==
    lastOp = "call" =>
        \A i \in DOMAIN trace :
            (trace[i][1] = "sqlite3_prepare_v2" /\ trace[i][2] # 0) =>
                LET h == trace[i][2]
                    F == Occurrences(Finalize(h))
                IN /\ Cardinality(F) <= 1
                   /\ pc = "idle" => Cardinality(F) = 1
                   /\ \A j \in F : j > i /\ \A k \in UsesOf(h) : k < j

\* an invocation that prepared two statements and failed busy on the second
C2_Witness ==
    /\ Returned
    /\ result = BERYL_ERR("Database is busy (timeout)")
    /\ Occurrences(Finalize(1)) # {}
    /\ Occurrences(Finalize(2)) # {}

(***************************************************************************)
(* C3.  When an invocation has returned, every column descriptor String it *)
(* created has been released exactly once and every descriptor buffer it   *)
(* obtained from the allocator has been freed.  The code breaks this: the  *)
(* buffer is not freed when a statement completes or a row fails, and the  *)
(* cleanup after a failed descriptor releases the failed slot instead of   *)
(* the descriptors already created.                                        *)
(***************************************************************************)
C3_DescriptorsReleasedOnce ==
    Returned =>
        \A i \in DOMAIN trace :
            /\ (trace[i][1] = "beryl_new_string" /\ trace[i][4] = "str") =>
                  Cardinality(Occurrences(<<"beryl_release", trace[i][2], trace[i][3], "str">>)) = 1
            /\ (trace[i][1] = "beryl_talloc" /\ trace[i][3] = "ok") =>
                  Cardinality(Occurrences(TFree(trace[i][2]))) = 1

(***************************************************************************)
(* C4.  A close on a handle whose connection an earlier close has already  *)
(* released returns an Error.  The code returns Null instead: it hands the *)
(* null connection to sqlite3_close, which accepts it.                     *)
(***************************************************************************)
C4_SecondCloseFails ==
    (lastOp = "close" /\ trace = << <<"sqlite3_close", "null", "SQLITE_OK">> >>)
        => BERYL_TYPEOF(result) = "err"

(***************************************************************************)
(* C5.  Once a close has released the handle's connection, an invocation   *)
(* of the handle returns the 'Database has been closed' Error at once,     *)
(* whatever its arguments, without any engine or allocator call.           *)
(***************************************************************************)
C5_ClosedHandleCallFails ==
    (lastOp = "call" /\ conn = "closed")
        => /\ pc = "idle"
           /\ result = BERYL_ERR("Database has been closed")
           /\ trace = <<>>
           /\ blame = <<>>

\* a closed handle invoked with a first argument that is no String
C5_Witness ==
    /\ lastOp = "call" /\ conn = "closed" /\ obj = "live"
    /\ BERYL_TYPEOF(args[1]) # "str"

(***************************************************************************)
(* C6.  get-last-insert-rowid on a handle whose connection is null returns *)
(* an Error and never hands the null connection to                         *)
(* sqlite3_last_insert_rowid.  The code has no such check.                 *)
(***************************************************************************)
C6_ClosedRowidFails ==
    /\ ~nullUse
    /\ (lastOp = "rowid" /\ db = "null" /\ blame = <<>>) => BERYL_TYPEOF(result) = "err"

(***************************************************************************)
(* C7.  The engine releases the connection of a handle at most once; a     *)
(* handle whose connection is null has had it released; and once the last  *)
(* reference is gone the connection has been released exactly once.        *)
(***************************************************************************)
C7_ConnectionReleasedOnce ==
    /\ connReleases <= 1
    /\ (obj = "live" /\ db = "null") => (conn = "closed" /\ connReleases = 1)
    /\ obj = "freed" => (conn = "closed" /\ connReleases = 1)

\* the last reference released after a successful explicit close
C7_Witness ==
    /\ obj = "freed"
    /\ trace = << <<"sqlite3_close_v2", "null", "SQLITE_OK">> >>
    /\ connReleases = 1

(***************************************************************************)
(* C8.  An invocation of an open handle with a String first argument is    *)
(* rejected with 'Too many parameters' exactly when the number of          *)
(* parameters exceeds the engine's maximum number of bindable parameters.  *)
(* The code compares against SQLITE_LIMIT_VARIABLE_NUMBER, the id of the   *)
(* limit, not its value.                                                   *)
(***************************************************************************)
C8_LimitIsEngineMaximum ==
    (Returned /\ db = "conn" /\ BERYL_TYPEOF(args[1]) = "str")
        => (result = BERYL_ERR("Too many parameters")
              <=> n_args - 1 > SQLITE_MAX_VARIABLE_NUMBER)

(***************************************************************************)
(* C9.  The Result Collection a successful invocation returns holds        *)
(* exactly one Table per row the engine reported, in the order the engine  *)
(* was stepped: statement by statement and, within a statement, row by     *)
(* row.                                                                    *)
(***************************************************************************)
C9_ResultIsEngineRows ==
    (Returned /\ BERYL_TYPEOF(result) = "array")
        => /\ Len(result[2]) = Len(RowSteps)
           /\ \A k \in 1..Len(RowSteps) :
                 /\ result[2][k] \in ExpectedRows(RowSteps[k][2], RowSteps[k][4])
                 /\ DistinctNames(ColumnNamesOf(KindOf(RowSteps[k][2])))
                       => result[2][k] = ExpectedRow(RowSteps[k][2], RowSteps[k][4])
           /\ \A k \in 1..(Len(RowSteps) - 1) :
                 \/ RowSteps[k][2] < RowSteps[k + 1][2]
                 \/ /\ RowSteps[k][2] = RowSteps[k + 1][2]
                    /\ RowSteps[k][4] < RowSteps[k + 1][4]

\* a script of two statements returned two rows of the first statement and,
\* after them, one row of the second
C9_Witness ==
    /\ Returned /\ BERYL_TYPEOF(result) = "array"
    /\ Len(result[2]) = MaxRows
    /\ RowSteps[1][2] = 1 /\ RowSteps[2][2] = 1 /\ RowSteps[Len(RowSteps)][2] = 2

(***************************************************************************)
(* C10, as stated.  Every Table built by row decoding has exactly          *)
(* n_columns entries, in the engine's column order, the i-th entry keyed   *)
(* by the i-th column descriptor, for every sequence of column names, also *)
(* one in which two columns carry the same name.                           *)
(***************************************************************************)
C10_TableHasAllColumns ==
    lastOp = "call" =>
        \A k \in 1..Len(rows) :
            LET h == RowSteps[k][2]
                names == ColumnNamesOf(KindOf(h))
                entries == rows[k][2]
            IN /\ Len(entries) = sqlite3_column_count(h)
               /\ \A i \in 1..Len(entries) :
                     /\ entries[i][1] = StrVal(<<names[i]>>)
                     /\ (h = stmt /\ pc = "step") => entries[i][1] = column_names[i]
                     /\ entries[i][2] = DecodedCell(h, RowSteps[k][4], i - 1)

(***************************************************************************)
(* C10, amended.  For every result row of a statement whose column names   *)
(* are pairwise distinct, the Table built by row decoding has exactly      *)
(* n_columns entries, in the engine's column order, the i-th entry keyed   *)
(* by the i-th column descriptor and holding the decoded cell.  When a     *)
(* name is repeated, the Table holds these entries or, the host refusing   *)
(* the repeated key, only the first entry of each name.                    *)
(***************************************************************************)
C10_TableHasDistinctColumns ==
    lastOp = "call" =>
        \A k \in 1..Len(rows) :
            LET h == RowSteps[k][2]
                names == ColumnNamesOf(KindOf(h))
                entries == rows[k][2]
            IN /\ rows[k] \in ExpectedRows(h, RowSteps[k][4])
               /\ DistinctNames(names) =>
                    /\ Len(entries) = sqlite3_column_count(h)
                    /\ \A i \in 1..Len(entries) :
                          /\ entries[i][1] = StrVal(<<names[i]>>)
                          /\ (h = stmt /\ pc = "step") => entries[i][1] = column_names[i]
                          /\ entries[i][2] = DecodedCell(h, RowSteps[k][4], i - 1)

\* a row of a statement with the two columns a and b
C10_Witness ==
    /\ lastOp = "call" /\ pc = "step"
    /\ Len(rows) >= 1
    /\ KindOf(RowSteps[Len(rows)][2]) = "sel2"
    /\ Len(rows[Len(rows)][2]) = 2
    /\ rows[Len(rows)][2][1][1] = StrVal(<<"a">>)
    /\ rows[Len(rows)][2][2][1] = StrVal(<<"b">>)

(***************************************************************************)
(* The round trip of one Number through the engine: the Number is bound as *)
(* parameter 1 of the statement SELECT ?, the statement is stepped, and    *)
(* its only column is decoded (lines 58-62 and 96-99).                     *)
(***************************************************************************)
\* BERYL_NUM_MAX_INT (line 306): 2^53, the largest integer below which every
\* integer is a double
NumMaxIntHi == 2^27

\* the Numbers sent through the round trip: integer-valued ones around 0,
\* around the limits of int and of unsigned int, and up to BERYL_NUM_MAX_INT,
\* and non-integers
RoundTripInputs ==
    {WideNumber(hi, lo, 0) :
        hi \in {-IntLimbs, -1, 0, 1, IntLimbs - 1, IntLimbs, IntLimbs + 1,
                2 * IntLimbs - 1, 2 * IntLimbs, 2 * IntLimbs + 1, NumMaxIntHi - 1},
        lo \in {0, 1, Limb - 1}}
      \cup {WideNumber(NumMaxIntHi, 0, 0)}
      \cup {WideNumber(hi, lo, 1) : hi \in {0, IntLimbs}, lo \in {0, 1}}

\* the cell the engine holds for SELECT ? after the bind call b
EchoCell(b) ==
    IF b[1] = "sqlite3_bind_int" THEN <<"SQLITE_INTEGER", <<b[2][1], b[2][2], 0>> >>
    ELSE <<"SQLITE_FLOAT", b[2]>>

\* lines 96-99: BERYL_NUMBER(sqlite3_column_double(stmt, i)) of an INTEGER or
\* FLOAT cell
column_number(cell) == WideNumber(cell[2][1], cell[2][2], cell[2][3])

InitRoundTrip ==
    /\ obj = "live" /\ db = "conn" /\ conn = "open" /\ connReleases = 0
    /\ nullUse = FALSE /\ crashed = FALSE
    /\ lastOp = "roundtrip"
    /\ pc = "rt_bind"
    /\ \E v \in RoundTripInputs : args = <<StrVal(<<"echo">>), v>>
    /\ expr = 0 /\ rows = <<>> /\ stmt = 1 /\ sno = 1
    /\ column_names = <<>> /\ rowNo = 0
    /\ trace = <<>> /\ blame = <<>> /\ result = <<"none">>

\* line 157 for parameter 1
RoundTripBind ==
    /\ pc = "rt_bind"
    /\ \E ub \in IntConversions :
         trace' = << <<"bind", stmt, 1, bind_i_val_as_sql_param(args[2], ub), "SQLITE_OK">> >>
    /\ pc' = "rt_read"
    /\ UNCHANGED <<lifeVars, lastOp, args, expr, rows, stmt, sno, column_names, rowNo,
                   blame, result>>

\* lines 96-99 for column 0 of the row
RoundTripRead ==
    /\ pc = "rt_read"
    /\ result' = column_number(EchoCell(trace[1][4]))
    /\ pc' = "rt_done"
    /\ UNCHANGED <<lifeVars, lastOp, args, expr, rows, stmt, sno, column_names, rowNo,
                   trace, blame>>

NextRoundTrip == RoundTripBind \/ RoundTripRead

SpecRoundTrip == InitRoundTrip /\ [][NextRoundTrip]_vars

(***************************************************************************)
(* C11.  An integer-valued Number up to BERYL_NUM_MAX_INT that is bound    *)
(* and read back comes back as the same Number.  The code binds it with    *)
(* sqlite3_bind_int, whose parameter is a 32-bit int: an integer beyond    *)
(* INT_MAX does not come back.                                             *)
(***************************************************************************)
C11_IntegerRoundTrip ==
    (pc = "rt_done" /\ beryl_is_integer(args[2])) => result = args[2]

\* the positions of the prepare, bind and step calls of the trace
EngineCalls ==
    {i \in DOMAIN trace : trace[i][1] \in {"sqlite3_prepare_v2", "bind", "sqlite3_step"}}

\* an open handle was invoked with an empty SQL text and a number of
\* parameters that the up-front check accepts, and the call has returned
EmptyScriptReturned ==
    /\ Returned /\ db = "conn"
    /\ args[1] = StrVal(<<>>)
    /\ n_args - 1 <= SQLITE_LIMIT_VARIABLE_NUMBER

(***************************************************************************)
(* C12, as stated.  Invoking an open handle with an empty SQL text and a   *)
(* number of parameters within the limit returns an empty Result           *)
(* Collection, not an Error, and makes no prepare, bind or step call.      *)
(* The allocation of the Result Collection can fail, and then the call     *)
(* returns an Error.                                                       *)
(***************************************************************************)
C12_EmptyScriptNeverFails ==
    EmptyScriptReturned => (result = <<"array", <<>>>> /\ EngineCalls = {})

(***************************************************************************)
(* C12, amended.  Invoking an open handle with an empty SQL text and a     *)
(* number of parameters within the limit makes no prepare, bind or step    *)
(* call, and returns an empty Result Collection unless the allocation of   *)
(* the Result Collection fails, in which case it returns the 'Out of       *)
(* memory' Error.                                                          *)
(***************************************************************************)
C12_EmptyScript ==
    EmptyScriptReturned =>
        /\ EngineCalls = {}
        /\ IF RowsAllocated
           THEN result = <<"array", <<>>>> /\ trace = << <<"beryl_new_array", "ok">> >>
           ELSE /\ result = BERYL_ERR("Out of memory")
                /\ trace = << <<"beryl_new_array", "NULL">> >>

\* an empty text with as many parameters as the check accepts
C12_Witness ==
    /\ EmptyScriptReturned
    /\ n_args - 1 = SQLITE_LIMIT_VARIABLE_NUMBER
    /\ result = <<"array", <<>>>>

\* the failed sqlite3_open calls of the last operation
FailedOpens ==
    {i \in DOMAIN trace : trace[i][1] = "sqlite3_open" /\ trace[i][3] # "SQLITE_OK"}

CloseCalls == {i \in DOMAIN trace : trace[i][1] = "sqlite3_close"}

\* what blame_sql_error blames for the result code err
BlamedMessages(err) ==
    {StrVal(<<"errstr", err>>),
     StrVal(<<"Unable to show error message (out of memory, unable to allocate string)">>)}

\* the common part of the two statements of C13: the Error, the single close
\* of what the engine handed back, no handle object
OpenFailureClosesOnce ==
    /\ (lastOp = "open" /\ FailedOpens # {}) =>
          \A i \in FailedOpens :
             /\ result = BERYL_ERR("Unable to open database")
             /\ Cardinality(CloseCalls) = 1
             /\ \A c \in CloseCalls : c > i /\ trace[c][2] = trace[i][2]
             /\ trace[i][2] = "conn" => (conn = "closed" /\ connReleases = 1)
             /\ obj = "none"
             /\ \A j \in DOMAIN trace : trace[j][1] # "beryl_new_object"
    /\ (lastOp = "open" /\ Occurrences(<<"beryl_new_object", "NULL">>) # {})
          => /\ result = BERYL_ERR("Out of memory")
             /\ Cardinality(CloseCalls) = 1
             /\ \A c \in CloseCalls : trace[c] = <<"sqlite3_close", "conn", "SQLITE_OK">>
             /\ conn = "closed" /\ connReleases = 1
             /\ obj = "none"

(***************************************************************************)
(* C13, as stated.  When the engine's open call fails, open returns the    *)
(* 'Unable to open database' Error, the partially opened connection is     *)
(* closed exactly once, no handle object is created and the value left as  *)
(* the blamed argument in the diagnostics channel is the offending path;   *)
(* when the object cannot be created after a successful engine open, the   *)
(* connection is closed exactly once and an Error is returned.             *)
(***************************************************************************)
C13_PathIsTheBlamedValue ==
    /\ OpenFailureClosesOnce
    /\ (lastOp = "open" /\ FailedOpens # {}) => blame = <<PathValue>>

(***************************************************************************)
(* C13, amended.  As stated, except for the blamed values: open blames the *)
(* offending path and, after it, the engine's message for the result code  *)
(* (or a fixed notice when the message cannot be allocated), so that the   *)
(* path is the first of two blamed values and the message the last.        *)
(***************************************************************************)
C13_OpenFailureClosesOnce ==
    /\ OpenFailureClosesOnce
    /\ (lastOp = "open" /\ FailedOpens # {}) =>
          \A i \in FailedOpens :
             /\ Len(blame) = 2
             /\ blame[1] = PathValue
             /\ blame[2] \in BlamedMessages(trace[i][3])

\* an engine open that failed with a code other than 'cannot open', its
\* message blamed after the path
C13_Witness ==
    /\ lastOp = "open"
    /\ result = BERYL_ERR("Unable to open database")
    /\ trace[2] = <<"sqlite3_open", "conn", "SQLITE_ERROR">>
    /\ blame = <<PathValue, StrVal(<<"errstr", "SQLITE_ERROR">>)>>
    /\ conn = "closed" /\ connReleases = 1

(***************************************************************************)
(* C14.  A parameter whose variant is neither String, Null nor Number is   *)
(* bound as the literal text "Unknown".                                    *)
(***************************************************************************)
BindEntries == {i \in DOMAIN trace : trace[i][1] = "bind"}

C14_OtherVariantBoundAsUnknown ==
    lastOp = "call" =>
      \A i \in BindEntries :
        BERYL_TYPEOF(args[trace[i][3] + 1]) \notin {"str", "null", "num"}
          => trace[i][4] = <<"sqlite3_bind_text", <<"Unknown">>, -1>>

(***************************************************************************)
(* Bind order.                                                             *)
(***************************************************************************)
\* the positions of the successful prepare calls of the invocation
StmtStart ==
    {p \in DOMAIN trace : trace[p][1] = "sqlite3_prepare_v2" /\ trace[p][3] = "SQLITE_OK"}

\* the last position of the trace that belongs to the statement prepared at p
SegEnd(p) ==
    LET later == {q \in DOMAIN trace : q > p /\ trace[q][1] = "sqlite3_prepare_v2"}
    IN IF later = {} THEN Len(trace)
       ELSE (CHOOSE q \in later : \A q2 \in later : q <= q2) - 1

IsBind(q, i) == q <= Len(trace) /\ trace[q][1] = "bind" /\ trace[q][3] = i

\* the number of bind calls that follow the prepare at p with the indices
\* 1, 2, ... in this order
BindRun(p) ==
    LET ks == {k \in 0..(n_args - 1) : \A i \in 1..k : IsBind(p + i, i)}
    IN CHOOSE k \in ks : \A k2 \in ks : k2 <= k

\* the bind loop of the statement prepared at p has run
BindLoopRan(p) == ~(pc = "bind" /\ p = Len(trace))

StepsOf(p) == {q \in (p + 1)..SegEnd(p) : trace[q][1] = "sqlite3_step"}

(***************************************************************************)
(* C15, as stated.  Every prepared statement of an invocation with N       *)
(* parameters receives exactly N bind calls, one per parameter.            *)
(***************************************************************************)
C15_EveryParameterBound ==
    lastOp = "call" =>
      \A p \in StmtStart : BindLoopRan(p) => BindRun(p) = n_args - 1

(***************************************************************************)
(* C15, amended.  For every statement prepared during an invocation with N *)
(* parameters the bind calls are issued at the indices 1, 2, ... in        *)
(* ascending order, index i carrying call argument i (argument 0 is never  *)
(* bound), each index at most once, all of them before the statement's     *)
(* first step and again for each statement of the script; all N are issued *)
(* unless a bind call fails or a String parameter is longer than INT_MAX,  *)
(* which ends the binding at that index (a too long String without a bind  *)
(* call for it) and the statement is never stepped.                        *)
(***************************************************************************)
C15_BindsInOrderUntilFailure ==
    lastOp = "call" =>
      \A p \in StmtStart :
        LET k == BindRun(p)
        IN /\ \A i \in 1..k :
                /\ trace[p + i][2] = trace[p][2]
                /\ \E ub \in IntConversions :
                     trace[p + i][4] = bind_i_val_as_sql_param(args[i + 1], ub)
                /\ i < k => trace[p + i][5] = "SQLITE_OK"
           /\ \A q \in (p + k + 1)..SegEnd(p) : trace[q][1] # "bind"
           /\ \A q \in DOMAIN trace :
                trace[q][1] = "bind" => \E p2 \in StmtStart : p2 < q /\ q <= SegEnd(p2)
           /\ BindLoopRan(p) =>
                \/ k = n_args - 1 /\ (k > 0 => trace[p + k][5] = "SQLITE_OK")
                \/ /\ k > 0 /\ trace[p + k][5] # "SQLITE_OK" /\ StepsOf(p) = {}
                   /\ result = BERYL_ERR("SQL parameter error")
                \/ /\ k < n_args - 1 /\ (k > 0 => trace[p + k][5] = "SQLITE_OK")
                   /\ BERYL_TYPEOF(args[k + 2]) = "str"
                   /\ LimbsGreater(BERYL_LENOF(args[k + 2]), INT_MAX)
                   /\ StepsOf(p) = {}
                   /\ result = BERYL_ERR("SQL parameter error")

\* two statements of one script were each bound the two parameters and stepped
C15_Witness ==
    /\ Returned
    /\ n_args = 3
    /\ Cardinality(StmtStart) = 2
    /\ \A p \in StmtStart : BindRun(p) = 2 /\ StepsOf(p) # {}

(***************************************************************************)
(* Failing engine results.                                                 *)
(***************************************************************************)
\* the result code of the engine call at position q
EngineRc(q) ==
    CASE trace[q][1] = "sqlite3_prepare_v2" -> trace[q][3]
      [] trace[q][1] = "bind"               -> trace[q][5]
      [] trace[q][1] = "sqlite3_step"       -> trace[q][3]

FailedCalls ==
    {q \in EngineCalls : EngineRc(q) \notin {"SQLITE_OK", "SQLITE_ROW", "SQLITE_DONE"}}

PrepareCalls == {q \in DOMAIN trace : trace[q][1] = "sqlite3_prepare_v2"}

(***************************************************************************)
(* C16.  After the first failing engine result of an invocation (prepare,  *)
(* bind, busy step or any other step result that is neither a row nor the  *)
(* end) no further prepare, bind or step call is issued and the invocation *)
(* has returned an Error; a busy result yields the dedicated 'Database is  *)
(* busy' Error, any other failing step the generic 'SQL error'.  The code  *)
(* breaks this for a prepare that finds the database busy, which it        *)
(* reports as 'SQL compiler error'.                                        *)
(***************************************************************************)
C16_FailureShortCircuits ==
    lastOp = "call" =>
      \A q \in FailedCalls :
        /\ \A q2 \in EngineCalls : q2 <= q
        /\ pc = "idle"
        /\ BERYL_TYPEOF(result) = "err"
        /\ EngineRc(q) = "SQLITE_BUSY" => result = BERYL_ERR("Database is busy (timeout)")
        /\ (trace[q][1] = "sqlite3_step" /\ EngineRc(q) # "SQLITE_BUSY")
              => result = BERYL_ERR("SQL error")

(***************************************************************************)
(* C17.  close changes the handle only on success: when the engine's close *)
(* call fails, close returns an Error and the stored connection is the     *)
(* same non-null, still open connection; when it succeeds, the stored      *)
(* connection is null and close returns Null.                              *)
(***************************************************************************)
C17_CloseChangesHandleOnSuccess ==
    [][(lastOp' = "close" /\ trace' # <<>>) =>
          IF trace'[1][3] # "SQLITE_OK"
          THEN /\ result' = BERYL_ERR("Unable to close database")
               /\ db' = db /\ db' = "conn"
               /\ conn' = conn /\ conn' = "open"
          ELSE /\ result' = BERYL_NULL
               /\ db' = "null"]_vars

\* a close that the engine refused
C17_Witness ==
    /\ lastOp = "close"
    /\ trace = << <<"sqlite3_close", "conn", "SQLITE_BUSY">> >>
    /\ result = BERYL_ERR("Unable to close database")
    /\ db = "conn" /\ conn = "open"

(***************************************************************************)
(* C18.  When the engine's prepare call succeeds without producing a       *)
(* statement, no bind, column or step call is made on the absent statement *)
(* handle and the invocation does not fail because of it.                  *)
(***************************************************************************)
AbsentStatements ==
    {p \in StmtStart : trace[p][2] = 0}

C18_AbsentStatementSkipped ==
    lastOp = "call" =>
      /\ UsesOf(0) = {}
      /\ (Returned /\ AbsentStatements # {} /\ FailedCalls = {})
            => BERYL_TYPEOF(result) # "err" \/ result = BERYL_ERR("Out of memory")

\* the prepare about to be made reads a remainder of which the engine
\* consumes at least one byte
ConsumesText == expr < expr_end /\ args[1][2][expr + 1] # "nul"

(***************************************************************************)
(* C19.  Every handle invocation eventually returns; its statements yield  *)
(* at most MaxRows rows.  The cursor never passes the end of the script    *)
(* text, it strictly advances on every successful prepare that consumes at *)
(* least one byte of the remaining text, and every iteration of the        *)
(* statement loop that completed without failing has advanced it: after n  *)
(* prepared statements the loop test finds it n statements further.        *)
(***************************************************************************)
C19_InvocationReturns ==
    /\ [](pc # "idle" => expr <= expr_end)
    /\ [](pc = "loop" => expr >= Cardinality(StmtStart))
    /\ [][(pc = "loop" /\ pc' = "bind") =>
            /\ expr <= expr' /\ expr' <= expr_end
            /\ ConsumesText => expr < expr']_vars
    /\ (pc # "idle") ~> (pc = "idle")

\* an invocation that ran both statements of its script and returned with the
\* cursor at the end of the text
C19_Witness ==
    /\ Returned
    /\ BERYL_TYPEOF(result) = "array"
    /\ expr_end = MaxStmts
    /\ expr = expr_end
    /\ Cardinality(StmtStart) = MaxStmts

====
